---- MODULE Spec2Model ----
(***************************************************************************)
(* Model of the recursive batch-distillation pipeline                      *)
(* (distill_cli_resumm-Y-comp-995 (Copy 2).py): the three batch            *)
(* partitioners, the round executor with its thread pool, and main's round *)
(* loop with resume.                                                       *)
(***************************************************************************)
EXTENDS Integers, Sequences, FiniteSets, TLC

\* ---------------------------------------------------------------- bounds
MaxFiles == 6          \* longest input list handed to a partitioner
MaxSizeUnits == 3      \* file sizes are 0..MaxSizeUnits half-kilobytes
MaxBatchSize == 3      \* largest --batch-size tried
MaxKb == 2             \* largest --max-batch-size-kb / --large-file-threshold-kb tried

\* ------------------------------------------------------ program constants
KB == 1024

\* ------------------------------------------------------------- utilities
RECURSIVE SumSizes(_, _)
SumSizes(paths, sz) ==
    IF paths = <<>> THEN 0 ELSE sz[Head(paths)] + SumSizes(Tail(paths), sz)

RECURSIVE Flatten(_)
Flatten(bs) == IF bs = <<>> THEN <<>> ELSE Head(bs) \o Flatten(Tail(bs))

Range(s) == {s[i] : i \in DOMAIN s}

Max2(a, b) == IF a >= b THEN a ELSE b

\* list.sort(key=size, reverse=True): stable, descending by size
RECURSIVE InsertDesc(_, _, _)
InsertDesc(sorted, f, sz) ==
    IF sorted = <<>> THEN <<f>>
    ELSE IF sz[Head(sorted)] >= sz[f]
         THEN <<Head(sorted)>> \o InsertDesc(Tail(sorted), f, sz)
         ELSE <<f>> \o sorted

RECURSIVE SortDescBySize(_, _)
SortDescBySize(file_list, sz) ==
    IF file_list = <<>> THEN <<>>
    ELSE InsertDesc(SortDescBySize(SubSeq(file_list, 1, Len(file_list) - 1), sz),
                    file_list[Len(file_list)], sz)

\* ------------------------------------------------ create_batches_by_count
\* slip: the slice start advances by batch_size + 1, skipping a file per chunk
RECURSIVE Chunks_SkipOne(_, _)
Chunks_SkipOne(file_list, k) ==
    IF file_list = <<>> THEN <<>>
    ELSE IF Len(file_list) <= k THEN <<file_list>>
    ELSE <<SubSeq(file_list, 1, k)>> \o
         Chunks_SkipOne(SubSeq(file_list, k + 2, Len(file_list)), k)

RECURSIVE Chunks(_, _)
Chunks(file_list, k) ==
    IF file_list = <<>> THEN <<>>
    ELSE IF Len(file_list) <= k THEN <<file_list>>
    ELSE <<SubSeq(file_list, 1, k)>> \o Chunks(SubSeq(file_list, k + 1, Len(file_list)), k)

\* slip: the batch size is ignored, one file per batch
create_batches_by_count_OnePerBatch(file_list, k) ==
    IF file_list = <<>> THEN <<>> ELSE Chunks(file_list, 1)

create_batches_by_count(file_list, k) ==
    IF file_list = <<>> THEN <<>> ELSE Chunks(file_list, k)

\* ------------------------------------------ create_batches_by_greedy_size
\* slip: the singleton test is strict, a file exactly at the threshold is lost
RECURSIVE LargeSingletons_Strict(_, _, _)
LargeSingletons_Strict(sorted, sz, large_file_bytes) ==
    IF sorted = <<>> THEN <<>>
    ELSE IF sz[Head(sorted)] > large_file_bytes
         THEN << <<Head(sorted)>> >> \o LargeSingletons_Strict(Tail(sorted), sz, large_file_bytes)
         ELSE LargeSingletons_Strict(Tail(sorted), sz, large_file_bytes)

\* first loop: files at or above the large-file threshold become singletons
RECURSIVE LargeSingletons(_, _, _)
LargeSingletons(sorted, sz, large_file_bytes) ==
    IF sorted = <<>> THEN <<>>
    ELSE IF sz[Head(sorted)] >= large_file_bytes
         THEN << <<Head(sorted)>> >> \o LargeSingletons(Tail(sorted), sz, large_file_bytes)
         ELSE LargeSingletons(Tail(sorted), sz, large_file_bytes)

RECURSIVE FilesToPack(_, _, _)
FilesToPack(sorted, sz, large_file_bytes) ==
    IF sorted = <<>> THEN <<>>
    ELSE IF sz[Head(sorted)] >= large_file_bytes
         THEN FilesToPack(Tail(sorted), sz, large_file_bytes)
         ELSE <<Head(sorted)>> \o FilesToPack(Tail(sorted), sz, large_file_bytes)

\* slip: the budget test forgets to add the incoming file's size
RECURSIVE GreedyPack_NoIncoming(_, _, _, _, _)
GreedyPack_NoIncoming(to_pack, sz, max_size_bytes, current_batch, current_batch_size) ==
    IF to_pack = <<>>
    THEN IF current_batch # <<>> THEN <<current_batch>> ELSE <<>>
    ELSE LET f == Head(to_pack) IN
         IF current_batch # <<>> /\ current_batch_size > max_size_bytes
         THEN <<current_batch>> \o
              GreedyPack_NoIncoming(Tail(to_pack), sz, max_size_bytes, <<f>>, sz[f])
         ELSE GreedyPack_NoIncoming(Tail(to_pack), sz, max_size_bytes,
                                    Append(current_batch, f), current_batch_size + sz[f])

\* second loop: greedy packing of the remaining files
RECURSIVE GreedyPack(_, _, _, _, _)
GreedyPack(to_pack, sz, max_size_bytes, current_batch, current_batch_size) ==
    IF to_pack = <<>>
    THEN IF current_batch # <<>> THEN <<current_batch>> ELSE <<>>
    ELSE LET f == Head(to_pack) IN
         IF current_batch # <<>> /\ current_batch_size + sz[f] > max_size_bytes
         THEN <<current_batch>> \o
              GreedyPack(Tail(to_pack), sz, max_size_bytes, <<f>>, sz[f])
         ELSE GreedyPack(Tail(to_pack), sz, max_size_bytes,
                         Append(current_batch, f), current_batch_size + sz[f])

\* slip: both thresholds converted as megabytes instead of kilobytes
create_batches_by_greedy_size_Megabytes(file_list, sz, max_batch_kb, large_file_kb) ==
    IF file_list = <<>> THEN <<>>
    ELSE LET max_size_bytes == max_batch_kb * KB * KB
             large_file_bytes == large_file_kb * KB * KB
             sorted == SortDescBySize(file_list, sz)
         IN LargeSingletons(sorted, sz, large_file_bytes) \o
            GreedyPack(FilesToPack(sorted, sz, large_file_bytes), sz,
                       max_size_bytes, <<>>, 0)

create_batches_by_greedy_size(file_list, sz, max_batch_kb, large_file_kb) ==
    IF file_list = <<>> THEN <<>>
    ELSE LET max_size_bytes == max_batch_kb * KB
             large_file_bytes == large_file_kb * KB
             sorted == SortDescBySize(file_list, sz)
         IN LargeSingletons(sorted, sz, large_file_bytes) \o
            GreedyPack(FilesToPack(sorted, sz, large_file_bytes), sz,
                       max_size_bytes, <<>>, 0)

\* ------------------------- create_batches_by_size (distill_cli_resume-Y-comp-004.py)
\* the loop over the files sorted by size, biggest first: a file at or above
\* the target closes the open batch and goes alone, the others are packed
RECURSIVE PackBySize(_, _, _, _, _)
PackBySize(sorted, sz, target_batch_size, current_batch, current_size) ==
    LET closed == IF current_batch # <<>> THEN <<current_batch>> ELSE <<>> IN
    IF sorted = <<>> THEN closed
    ELSE LET f == Head(sorted) IN
         IF sz[f] >= target_batch_size
         THEN closed \o << <<f>> >> \o
              PackBySize(Tail(sorted), sz, target_batch_size, <<>>, 0)
         ELSE IF current_size + sz[f] > target_batch_size /\ current_batch # <<>>
         THEN closed \o PackBySize(Tail(sorted), sz, target_batch_size, <<f>>, sz[f])
         ELSE PackBySize(Tail(sorted), sz, target_batch_size,
                         Append(current_batch, f), current_size + sz[f])

create_batches_by_size(file_list, sz, target_batch_size) ==
    IF file_list = <<>> THEN <<>>
    ELSE PackBySize(SortDescBySize(file_list, sz), sz, target_batch_size, <<>>, 0)

\* ------------------------------------------------------------ _Bin, heapq
NewBin == [paths |-> <<>>, size |-> 0]

\* _Bin.__lt__
BinLt(a, b) == a.size < b.size

\* heap positions are 0-based as in heapq; At/Put translate to sequences
At(heap, pos) == heap[pos + 1]
Put(heap, pos, item) == [heap EXCEPT ![pos + 1] = item]

\* heapq._siftdown(heap, startpos, pos) with newitem carried along
RECURSIVE SiftDownLoop(_, _, _, _)
SiftDownLoop(heap, startpos, pos, newitem) ==
    IF pos > startpos
    THEN LET parentpos == (pos - 1) \div 2
             parent == At(heap, parentpos)
         IN IF BinLt(newitem, parent)
            THEN SiftDownLoop(Put(heap, pos, parent), startpos, parentpos, newitem)
            ELSE Put(heap, pos, newitem)
    ELSE Put(heap, pos, newitem)

SiftDown(heap, startpos, pos) == SiftDownLoop(heap, startpos, pos, At(heap, pos))

\* heapq._siftup(heap, pos): bubble the smaller child up to a leaf, then sift down
RECURSIVE SiftUpLoop(_, _, _, _)
SiftUpLoop(heap, startpos, pos, newitem) ==
    LET endpos == Len(heap)
        leftpos == 2 * pos + 1
        rightpos == leftpos + 1
    IN IF leftpos < endpos
       THEN LET childpos == IF rightpos < endpos
                                /\ ~BinLt(At(heap, leftpos), At(heap, rightpos))
                             THEN rightpos ELSE leftpos
            IN SiftUpLoop(Put(heap, pos, At(heap, childpos)), startpos, childpos, newitem)
       ELSE SiftDown(Put(heap, pos, newitem), startpos, pos)

SiftUp(heap, pos) == SiftUpLoop(heap, pos, pos, At(heap, pos))

\* heapq.heapify: for i in reversed(range(n // 2)): _siftup(x, i)
RECURSIVE HeapifyFrom(_, _)
HeapifyFrom(heap, i) ==
    IF i < 0 THEN heap ELSE HeapifyFrom(SiftUp(heap, i), i - 1)

Heapify(heap) == HeapifyFrom(heap, (Len(heap) \div 2) - 1)

\* heapq.heappop: the popped item and the remaining heap
HeapPopItem(heap) == IF Len(heap) = 1 THEN heap[1] ELSE At(heap, 0)

HeapPopRest(heap) ==
    LET lastelt == heap[Len(heap)]
        shorter == SubSeq(heap, 1, Len(heap) - 1)
    IN IF shorter = <<>> THEN <<>> ELSE SiftUp(Put(shorter, 0, lastelt), 0)

\* heapq.heappush
HeapPush(heap, item) ==
    LET longer == Append(heap, item) IN SiftDown(longer, 0, Len(longer) - 1)

\* ------------------------------------------------ create_balanced_batches
\* slip: floor instead of ceil
NumBatches_Floor(n, max_files_per_batch) ==
    Max2(1, n \div max_files_per_batch)

\* num_batches = max(1, ceil(len(file_list) / max_files_per_batch))
NumBatches(n, max_files_per_batch) ==
    Max2(1, (n + max_files_per_batch - 1) \div max_files_per_batch)

\* slip: the cap test is off by one, a full bin takes one more file
PlaceFile_OffByOne(bins, path, size, max_files_per_batch) ==
    LET smallest_bin == HeapPopItem(bins)
        rest == HeapPopRest(bins)
    IN IF Len(smallest_bin.paths) > max_files_per_batch
       THEN HeapPush(rest, [paths |-> <<path>>, size |-> size])
       ELSE HeapPush(rest, [paths |-> Append(smallest_bin.paths, path),
                            size |-> smallest_bin.size + size])

\* one iteration of "for size, path in sized_files"
PlaceFile(bins, path, size, max_files_per_batch) ==
    LET smallest_bin == HeapPopItem(bins)
        rest == HeapPopRest(bins)
    IN IF Len(smallest_bin.paths) >= max_files_per_batch
       THEN HeapPush(rest, [paths |-> <<path>>, size |-> size])
       ELSE HeapPush(rest, [paths |-> Append(smallest_bin.paths, path),
                            size |-> smallest_bin.size + size])

RECURSIVE PlaceAll(_, _, _, _)
PlaceAll(bins, sorted, sz, max_files_per_batch) ==
    IF sorted = <<>> THEN bins
    ELSE PlaceAll(PlaceFile(bins, Head(sorted), sz[Head(sorted)], max_files_per_batch),
                  Tail(sorted), sz, max_files_per_batch)

\* [b.paths for b in bins if b.paths]
RECURSIVE NonEmptyPaths(_)
NonEmptyPaths(bins) ==
    IF bins = <<>> THEN <<>>
    ELSE IF Head(bins).paths # <<>>
         THEN <<Head(bins).paths>> \o NonEmptyPaths(Tail(bins))
         ELSE NonEmptyPaths(Tail(bins))

create_balanced_batches(file_list, sz, max_files_per_batch) ==
    IF file_list = <<>> THEN <<>>
    ELSE LET sorted == SortDescBySize(file_list, sz)
             num_batches == NumBatches(Len(file_list), max_files_per_batch)
             bins == Heapify([i \in 1..num_batches |-> NewBin])
         IN NonEmptyPaths(PlaceAll(bins, sorted, sz, max_files_per_batch))

\* ------------------------------------------------------- partitioner spec
VARIABLES file_sizes, batch_size, max_batch_size_kb, large_file_threshold_kb,
          part_mode, part_batches

part_vars == <<file_sizes, batch_size, max_batch_size_kb, large_file_threshold_kb,
               part_mode, part_batches>>

VARIABLES args, resume, src_sizes, script, src_dir, out_dir, pc, current_files, round_count,
          batches, next_batch, fut, yielded, output_files,
          invocation, resumes, calls, succeeded, failed_calls, skips, log, finalized

pipe_vars == <<args, resume, src_sizes, script, src_dir, out_dir, pc, current_files, round_count,
               batches, next_batch, fut, yielded, output_files,
               invocation, resumes, calls, succeeded, failed_calls, skips, log, finalized>>

round_vars == <<batches, next_batch, fut, yielded, output_files>>

history_vars == <<calls, succeeded, failed_calls, skips, log, finalized>>

\* deduplicate_vtt_safe.py: the directory tree and the locals of
\* deduplicate_vtt_files_safe
VARIABLES tree, quarantine_exists, dry_run, dedup_pc, walked, processed_file_ids,
          hashes, groups_done, files_to_move, moved_count,
          dedup_run, tree_before, quarantine_before

dedup_vars == <<tree, quarantine_exists, dry_run, dedup_pc, walked,
                processed_file_ids, hashes, groups_done, files_to_move,
                moved_count, dedup_run, tree_before, quarantine_before>>

\* yt_subtitle_mission.py: the directory PROCESSED_DIR, the fields of one
\* Mission and the position of Mission.process
VARIABLES processed_dir, video_id, language, final_filename, status,
          mission_pc, lang_index, returned, attempts

mission_vars == <<processed_dir, video_id, language, final_filename, status,
                  mission_pc, lang_index, returned, attempts>>

vars == <<part_vars, pipe_vars, dedup_vars, mission_vars>>

\* ------------------------------------------------ deduplicate_vtt_safe.py
\* bounds of the deduplication specification
MaxInodes == 3       \* physical files in the tree
MaxContents == 2     \* distinct file contents
MaxDedupRuns == 2    \* executions of the script on the same tree

\* directories below base_dir that hold the files before the first run
Dirs == {"d1", "d2", "d3"}

\* base_dir/deduplicated_vtt_quarantine
quarantine_dir == "deduplicated_vtt_quarantine"

Exts == {"vtt", "txt"}

\* a path: directory, file name without extension, extension. The files
\* are all called x; name holds the counters appended by the script, so
\* <<>> is x.vtt, <<1>> is x_1.vtt and <<1, 1>> is x_1_1.vtt
Path(dir, name, ext) == [dir |-> dir, name |-> name, ext |-> ext]

\* a directory entry: hard links are entries with the same inode
Entry(path, ino, content) == [path |-> path, ino |-> ino, content |-> content]

\* the trees a first run may find: at most one file in each directory
TreeOf(present, ext, ino, content) ==
    {Entry(Path(d, <<>>, ext[d]), ino[d], content[ino[d]]) : d \in {e \in Dirs : present[e]}}

DedupTrees ==
    {TreeOf(present, ext, ino, content) :
        present \in [Dirs -> BOOLEAN], ext \in [Dirs -> Exts],
        ino \in [Dirs -> 1..MaxInodes], content \in [1..MaxInodes -> 1..MaxContents]}

PathExists(path) == \E e \in tree : e.path = path

EntryAt(path) == CHOOSE e \in tree : e.path = path

\* the files os.walk(base_dir) yields that pass filename.endswith('.vtt');
\* the quarantine directory lies below base_dir and is walked too
VttPaths == {e.path : e \in {f \in tree : f.path.ext = "vtt"}}

\* calculate_file_hash: the digest stands for the content
calculate_file_hash(path) == EntryAt(path).content

\* os.path.join(quarantine_dir, os.path.basename(filepath_to_move)), then
\* f"{name}_{counter}{ext}" for counter = 1, 2, ...
Candidate(path, counter) ==
    Path(quarantine_dir,
         IF counter = 0 THEN path.name ELSE Append(path.name, counter),
         path.ext)

\* "while os.path.exists(destination_path) and not dry_run"
RECURSIVE destination_path(_, _)
destination_path(path, counter) ==
    IF PathExists(Candidate(path, counter)) /\ ~dry_run
    THEN destination_path(path, counter + 1)
    ELSE Candidate(path, counter)

\* shutil.move(filepath_to_move, destination_path)
Moved(path, dest) ==
    (tree \ {EntryAt(path)}) \cup
        {Entry(dest, EntryAt(path).ino, EntryAt(path).content)}

\* the hashes with more than one path that the second loop has not visited
OpenGroups == {h \in DOMAIN hashes : Cardinality(hashes[h]) > 1 /\ h \notin groups_done}

NoLocals ==
    /\ walked = {}
    /\ processed_file_ids = {}
    /\ hashes = [h \in 1..MaxContents |-> {}]
    /\ groups_done = {}
    /\ files_to_move = {}
    /\ moved_count = 0

DedupInputs ==
    /\ tree \in DedupTrees
    /\ quarantine_exists \in BOOLEAN
    /\ dry_run \in BOOLEAN
    /\ dedup_pc = "start"
    /\ NoLocals
    /\ dedup_run = 1
    /\ tree_before = tree
    /\ quarantine_before = quarantine_exists

DedupIdle ==
    /\ tree = {}
    /\ quarantine_exists = FALSE
    /\ dry_run = FALSE
    /\ dedup_pc = "idle"
    /\ NoLocals
    /\ dedup_run = 1
    /\ tree_before = {}
    /\ quarantine_before = FALSE

\* the function up to the walk: os.makedirs(quarantine_dir) unless dry_run
DedupBegin ==
    /\ dedup_pc = "start"
    /\ quarantine_exists' = (quarantine_exists \/ ~dry_run)
    /\ dedup_pc' = "walk"
    /\ UNCHANGED <<tree, dry_run, walked, processed_file_ids, hashes, groups_done,
                   files_to_move, moved_count, dedup_run, tree_before,
                   quarantine_before>>
    /\ UNCHANGED <<part_vars, pipe_vars, mission_vars>>

\* one .vtt file of the walk, in the order the file system lists them
DedupScan(path) ==
    /\ dedup_pc = "walk"
    /\ path \in VttPaths \ walked
    /\ walked' = walked \cup {path}
    /\ IF EntryAt(path).ino \in processed_file_ids
       THEN UNCHANGED <<processed_file_ids, hashes>>
       ELSE /\ processed_file_ids' = processed_file_ids \cup {EntryAt(path).ino}
            /\ hashes' = [hashes EXCEPT ![calculate_file_hash(path)] = @ \cup {path}]
    /\ UNCHANGED <<tree, quarantine_exists, dry_run, dedup_pc, groups_done,
                   files_to_move, moved_count, dedup_run, tree_before,
                   quarantine_before>>
    /\ UNCHANGED <<part_vars, pipe_vars, mission_vars>>

\* the walk is over
DedupWalked ==
    /\ dedup_pc = "walk"
    /\ walked = VttPaths
    /\ dedup_pc' = "groups"
    /\ UNCHANGED <<tree, quarantine_exists, dry_run, walked, processed_file_ids,
                   hashes, groups_done, files_to_move, moved_count, dedup_run,
                   tree_before, quarantine_before>>
    /\ UNCHANGED <<part_vars, pipe_vars, mission_vars>>

\* one hash with duplicates: filepaths = list(filepaths_set) puts any path
\* first, that one is kept and the others are to be moved
DedupTakeGroup(h, keep) ==
    /\ dedup_pc = "groups"
    /\ files_to_move = {}
    /\ h \in OpenGroups
    /\ keep \in hashes[h]
    /\ files_to_move' = hashes[h] \ {keep}
    /\ groups_done' = groups_done \cup {h}
    /\ UNCHANGED <<tree, quarantine_exists, dry_run, dedup_pc, walked,
                   processed_file_ids, hashes, moved_count, dedup_run,
                   tree_before, quarantine_before>>
    /\ UNCHANGED <<part_vars, pipe_vars, mission_vars>>

\* slip: the dry-run test is missing, the file is moved in every mode
DedupMove_NoDryRunTest(path) ==
    /\ dedup_pc = "groups"
    /\ path \in files_to_move
    /\ files_to_move' = files_to_move \ {path}
    /\ tree' = Moved(path, destination_path(path, 0))
    /\ moved_count' = moved_count + 1
    /\ UNCHANGED <<quarantine_exists, dry_run, dedup_pc, walked, processed_file_ids,
                   hashes, groups_done, dedup_run, tree_before, quarantine_before>>
    /\ UNCHANGED <<part_vars, pipe_vars, mission_vars>>

\* one iteration of "for filepath_to_move in files_to_move": reported in a dry
\* run, moved to the first free name in the quarantine directory otherwise
DedupMove(path) ==
    /\ dedup_pc = "groups"
    /\ path \in files_to_move
    /\ files_to_move' = files_to_move \ {path}
    /\ IF dry_run
       THEN UNCHANGED tree
       ELSE tree' = Moved(path, destination_path(path, 0))
    /\ moved_count' = moved_count + 1
    /\ UNCHANGED <<quarantine_exists, dry_run, dedup_pc, walked, processed_file_ids,
                   hashes, groups_done, dedup_run, tree_before, quarantine_before>>
    /\ UNCHANGED <<part_vars, pipe_vars, mission_vars>>

\* shutil.move raised: the error is printed and the file stays
DedupMoveFails(path) ==
    /\ dedup_pc = "groups"
    /\ ~dry_run
    /\ path \in files_to_move
    /\ files_to_move' = files_to_move \ {path}
    /\ UNCHANGED <<tree, quarantine_exists, dry_run, dedup_pc, walked,
                   processed_file_ids, hashes, groups_done, moved_count,
                   dedup_run, tree_before, quarantine_before>>
    /\ UNCHANGED <<part_vars, pipe_vars, mission_vars>>

\* the second loop is over: the totals are printed and the function returns
DedupEnd ==
    /\ dedup_pc = "groups"
    /\ files_to_move = {}
    /\ OpenGroups = {}
    /\ dedup_pc' = "done"
    /\ UNCHANGED <<tree, quarantine_exists, dry_run, walked, processed_file_ids,
                   hashes, groups_done, files_to_move, moved_count, dedup_run,
                   tree_before, quarantine_before>>
    /\ UNCHANGED <<part_vars, pipe_vars, mission_vars>>

\* the script is run again on the same base directory, with or without --dry-run
DedupRunAgain ==
    /\ dedup_pc = "done"
    /\ dedup_run < MaxDedupRuns
    /\ dedup_run' = dedup_run + 1
    /\ dry_run' \in BOOLEAN
    /\ dedup_pc' = "start"
    /\ walked' = {}
    /\ processed_file_ids' = {}
    /\ hashes' = [h \in 1..MaxContents |-> {}]
    /\ groups_done' = {}
    /\ files_to_move' = {}
    /\ moved_count' = 0
    /\ tree_before' = tree
    /\ quarantine_before' = quarantine_exists
    /\ UNCHANGED <<tree, quarantine_exists>>
    /\ UNCHANGED <<part_vars, pipe_vars, mission_vars>>

DedupNext ==
    \/ DedupBegin
    \/ \E path \in VttPaths : DedupScan(path)
    \/ DedupWalked
    \/ \E h \in DOMAIN hashes : \E keep \in hashes[h] : DedupTakeGroup(h, keep)
    \/ \E path \in files_to_move : DedupMove(path)
    \/ \E path \in files_to_move : DedupMoveFails(path)
    \/ DedupEnd
    \/ DedupRunAgain

\* ------------------------------------------------- yt_subtitle_mission.py
\* bound of the subtitle mission specification
MaxIdLen == 2        \* characters of a video id

\* the characters video ids are made of
IdChars == {"a", "b"}

VideoIds == UNION {[1..n -> IdChars] : n \in 1..MaxIdLen}

Langs == {"es", "en"}

\* a file of PROCESSED_DIR: head is the part of the name before
\* ".(upload_date).sanitized_title", as characters; lang the component after the
\* title; tail the components after it, so <<"cleaned", "vtt">> is ".cleaned.vtt"
FileName(head, lang, tail) == [head |-> head, lang |-> lang, tail |-> tail]

\* f"[{self.video_id}]" as it stands in the names the script builds
Bracketed(id) == <<"[">> \o id \o <<"]">>

\* what yt-dlp writes for -o "<temp_output_template>.%(ext)s" with --sub-langs
YtDlpFile(lang) == FileName(Bracketed(video_id), lang, <<lang, "vtt">>)

\* PROCESSED_DIR / f"[{video_id}].({upload_date}).{title}.{lang}.cleaned.vtt"
CleanedFile(lang) == FileName(Bracketed(video_id), lang, <<"cleaned", "vtt">>)

None == FileName(<<>>, "", <<>>)

\* Path.suffix values taken as a downloaded subtitle
SubtitleSuffixes == {"vtt", "srv3", "srv2", "srv1", "ttml"}

\* the head of the pattern f"{temp_output_template}*" as glob reads it: "[" and
\* "]" enclose a set of characters, one of which stands at that place
HeadPattern == << Range(video_id) >>

MatchesHead(head) ==
    /\ Len(head) = Len(HeadPattern)
    /\ \A i \in DOMAIN head : head[i] \in HeadPattern[i]

\* PROCESSED_DIR.glob(f"{temp_output_template}*")
GlobTemplate(dir, lang) == {n \in dir : MatchesHead(n.head) /\ n.lang = lang}

Contains(s, t) ==
    \E i \in 0..(Len(s) - Len(t)) : SubSeq(s, i + 1, i + Len(t)) = t

\* PROCESSED_DIR.glob(f"*{self.video_id}*.cleaned.vtt")
GlobExisting(dir) ==
    {n \in dir : Contains(n.head, video_id) /\ Len(n.tail) >= 2
                 /\ SubSeq(n.tail, Len(n.tail) - 1, Len(n.tail)) = <<"cleaned", "vtt">>}

\* files PROCESSED_DIR may hold when a mission starts: the cleaned file and a raw
\* download of an earlier run, and two files that are not the script's
EarlierFiles ==
    {CleanedFile("es"), YtDlpFile("en"),
     FileName(<<"a">>, "es", <<"vtt">>), FileName(<<"a">>, "en", <<"part">>)}

\* the languages in the order of "for lang_attempt in [primary_lang, fallback_lang]"
LangOrder == <<language, IF language = "es" THEN "en" ELSE "es">>

NoMissionLocals ==
    /\ lang_index = 1
    /\ returned = "none"
    /\ attempts = <<>>

\* a Mission after __init__ and _bulk_detect_languages, before process
MissionInputs ==
    /\ video_id \in VideoIds
    /\ language \in Langs
    /\ processed_dir \in SUBSET EarlierFiles
    /\ final_filename = None
    /\ status = "Pendiente"
    /\ mission_pc = "process"
    /\ NoMissionLocals

MissionIdle ==
    /\ video_id = <<"a">>
    /\ language = "es"
    /\ processed_dir = {}
    /\ final_filename = None
    /\ status = "Pendiente"
    /\ mission_pc = "idle"
    /\ NoMissionLocals

\* process up to the call of _download_and_clean
MissionProcess ==
    /\ mission_pc = "process"
    /\ IF GlobExisting(processed_dir) # {}
       THEN /\ status' = "Exito (Existente)"
            /\ final_filename' \in GlobExisting(processed_dir)
            /\ mission_pc' = "done"
       ELSE /\ final_filename' = CleanedFile(language)
            /\ mission_pc' = "download"
            /\ UNCHANGED status
    /\ UNCHANGED <<processed_dir, video_id, language, lang_index, returned, attempts>>
    /\ UNCHANGED <<part_vars, pipe_vars, dedup_vars>>

\* one iteration of the loop of _download_and_clean: yt-dlp writes a subtitle
\* file or not, the directory is searched, the file found is cleaned by the
\* shell pipeline, which succeeds ("ok") or raises after the redirection has
\* created the cleaned file ("partial") or before ("nofile")
DownloadAttempt(wrote, raw_vtt_path, cleaning) ==
    LET lang_attempt == LangOrder[lang_index]
        after_download == IF wrote THEN processed_dir \cup {YtDlpFile(lang_attempt)}
                          ELSE processed_dir
        downloaded_files == GlobTemplate(after_download, lang_attempt)
        subtitles == {n \in downloaded_files : n.tail[Len(n.tail)] \in SubtitleSuffixes}
        found == subtitles # {}
        cleaned == found /\ cleaning = "ok"
    IN  /\ mission_pc = "download"
        /\ IF found THEN raw_vtt_path \in subtitles ELSE raw_vtt_path = None
        /\ attempts' = Append(attempts, [lang |-> lang_attempt, wrote |-> wrote,
                                         found |-> found, cleaned |-> cleaned])
        /\ processed_dir' =
              IF ~found THEN after_download \ downloaded_files
              ELSE IF cleaning = "nofile" THEN after_download \ {raw_vtt_path}
              ELSE (after_download \ {raw_vtt_path}) \cup {CleanedFile(lang_attempt)}
        /\ final_filename' = IF found THEN CleanedFile(lang_attempt) ELSE final_filename
        /\ language' = IF cleaned THEN lang_attempt ELSE language
        /\ IF cleaned
           THEN returned' = "True" /\ mission_pc' = "returned" /\ UNCHANGED lang_index
           ELSE IF lang_index = 2
           THEN returned' = "False" /\ mission_pc' = "returned" /\ UNCHANGED lang_index
           ELSE lang_index' = 2 /\ UNCHANGED <<returned, mission_pc>>
        /\ UNCHANGED <<video_id, status>>
        /\ UNCHANGED <<part_vars, pipe_vars, dedup_vars>>

\* process after _download_and_clean has returned
MissionProcessEnd ==
    /\ mission_pc = "returned"
    /\ status' = IF returned = "True" THEN "Exito" ELSE "Fallo (Descarga)"
    /\ mission_pc' = "done"
    /\ UNCHANGED <<processed_dir, video_id, language, final_filename, lang_index,
                   returned, attempts>>
    /\ UNCHANGED <<part_vars, pipe_vars, dedup_vars>>

MissionNext ==
    \/ MissionProcess
    \/ \E wrote \in BOOLEAN : \E raw_vtt_path \in processed_dir \cup {None} :
          \E cleaning \in {"ok", "partial", "nofile"} :
              DownloadAttempt(wrote, raw_vtt_path, cleaning)
    \/ MissionProcessEnd

\* st_size of a file, in bytes: multiples of half a kilobyte
Sizes == {u * (KB \div 2) : u \in 0..MaxSizeUnits}

SizeLists == UNION {[1..n -> Sizes] : n \in 1..MaxFiles}

\* the documented balanced example: one file of 10 bytes and four of 1 byte
BalancedScenarioSizes == <<10, 1, 1, 1, 1>>

\* the input list: file i is the i-th path handed to the partitioner
file_list == [i \in DOMAIN file_sizes |-> i]

PartInputs ==
    /\ file_sizes \in SizeLists \cup {BalancedScenarioSizes}
    /\ batch_size \in 1..MaxBatchSize
    /\ max_batch_size_kb \in 1..MaxKb
    /\ large_file_threshold_kb \in 1..MaxKb
    /\ part_mode = "none"
    /\ part_batches = <<>>

PartCount ==
    /\ part_mode = "none"
    /\ part_mode' = "count"
    /\ part_batches' = create_batches_by_count(file_list, batch_size)
    /\ UNCHANGED <<file_sizes, batch_size, max_batch_size_kb, large_file_threshold_kb>>
    /\ UNCHANGED <<pipe_vars, dedup_vars, mission_vars>>

PartSize ==
    /\ part_mode = "none"
    /\ part_mode' = "size"
    /\ part_batches' = create_batches_by_greedy_size(file_list, file_sizes,
                            max_batch_size_kb, large_file_threshold_kb)
    /\ UNCHANGED <<file_sizes, batch_size, max_batch_size_kb, large_file_threshold_kb>>
    /\ UNCHANGED <<pipe_vars, dedup_vars, mission_vars>>

PartBalanced ==
    /\ part_mode = "none"
    /\ part_mode' = "balanced"
    /\ part_batches' = create_balanced_batches(file_list, file_sizes, batch_size)
    /\ UNCHANGED <<file_sizes, batch_size, max_batch_size_kb, large_file_threshold_kb>>
    /\ UNCHANGED <<pipe_vars, dedup_vars, mission_vars>>

PartNext == PartCount \/ PartSize \/ PartBalanced

\* ---------------------------------------------------------- pipeline state
\* bounds of the pipeline specification
MaxSources == 3        \* most source files discovered by main
MaxWorkers == 2        \* largest --max-workers tried
MaxRounds == 2         \* rounds after which the model stops following main's loop
MaxInvocations == 2    \* invocations of the script on the same directories
MaxPipeBatchSize == 2  \* largest --batch-size tried in the pipeline
MaxOutUnits == 1       \* the external tool's output is 1..MaxOutUnits half-kilobytes
PipeKb == 1            \* the --max-batch-size-kb and --large-file-threshold-kb of the pipeline

\* paths: a source file, a batch artifact round_<r>_batch_<i>.txt, the final summary
SrcPath(i) == [kind |-> "src", round |-> 0, batch |-> i]
ArtPath(r, i) == [kind |-> "art", round |-> r, batch |-> i]
FinalPath == [kind |-> "final", round |-> 0, batch |-> 0]

BatchModes == {"count", "size", "balanced"}

\* st_size of the source files: below and above the pipeline's thresholds
SrcSizes == {KB \div 2, 3 * (KB \div 2)}

\* sizes the external tool's output may have
OutSizes == {u * (KB \div 2) : u \in 1..MaxOutUnits}

\* the output directory is a set of entries [path, size]
Exists(p) == \E e \in out_dir : e.path = p
SizeOnDisk(p) == (CHOOSE e \in out_dir : e.path = p).size
WriteFile(dir, p, size) == {e \in dir : e.path # p} \cup {[path |-> p, size |-> size]}
RemoveFile(dir, p) == {e \in dir : e.path # p}

\* the two mains that are modelled: the script of 21 August 2025 and the
\* older distill_cli_resume-Y-comp-004.py
Scripts == {"comp-995", "comp-004"}

\* initial_files = sorted(source_path.glob(...)): the sources still in place
initial_files ==
    SelectSeq([i \in DOMAIN src_sizes |-> SrcPath(i)], LAMBDA p : p.batch \in src_dir)

\* p.stat().st_size for the paths of the current round
StatSize ==
    [f \in Range(current_files) |->
        IF f.kind = "src" THEN src_sizes[f.batch]
        ELSE IF Exists(f) THEN SizeOnDisk(f) ELSE 0]

\* Path.name of an artifact as character codes: "<r>_batch_<i>." inside
\* "round_<r>_batch_<i>.txt" ('_' = 95, '.' = 46, digit d = 48 + d)
RECURSIVE DigitCodes(_)
DigitCodes(n) ==
    IF n < 10 THEN <<48 + n>> ELSE Append(DigitCodes(n \div 10), 48 + (n % 10))

\* slip: the file name leaves the round number out
NameKey_NoRound(p) == <<95>> \o DigitCodes(p.batch) \o <<46>>

NameKey(p) == DigitCodes(p.round) \o <<95>> \o DigitCodes(p.batch) \o <<46>>

\* string comparison
RECURSIVE LexLess(_, _)
LexLess(a, b) ==
    IF b = <<>> THEN FALSE
    ELSE IF a = <<>> THEN TRUE
    ELSE IF Head(a) # Head(b) THEN Head(a) < Head(b)
    ELSE LexLess(Tail(a), Tail(b))

\* sorted(output_files, key=lambda p: p.name): stable, ascending
RECURSIVE InsertByName(_, _)
InsertByName(sorted, p) ==
    IF sorted = <<>> THEN <<p>>
    ELSE IF LexLess(NameKey(p), NameKey(Head(sorted)))
         THEN <<p>> \o sorted
         ELSE <<Head(sorted)>> \o InsertByName(Tail(sorted), p)

\* slip: the collected list is returned as it is
SortByName_Unsorted(files) == files

RECURSIVE SortByName(_)
SortByName(files) ==
    IF files = <<>> THEN <<>>
    ELSE InsertByName(SortByName(SubSeq(files, 1, Len(files) - 1)), files[Len(files)])

\* the dispatch on args.batch_mode at the top of run_distillation_round
\* slip: a resumed invocation numbers the same batches from the other end
MakeBatches_ByInvocation(input_files, sz) ==
    LET b == IF args.batch_mode = "count"
             THEN create_batches_by_count(input_files, args.batch_size)
             ELSE IF args.batch_mode = "size"
             THEN create_batches_by_greedy_size(input_files, sz, args.max_batch_size_kb,
                                                args.large_file_threshold_kb)
             ELSE create_balanced_batches(input_files, sz, args.batch_size)
    IN  IF invocation > 1 THEN [i \in DOMAIN b |-> b[Len(b) + 1 - i]] ELSE b

MakeBatches(input_files, sz) ==
    IF args.batch_mode = "count"
    THEN create_batches_by_count(input_files, args.batch_size)
    ELSE IF script = "comp-004"
    THEN create_batches_by_size(input_files, sz, args.batch_size)
    ELSE IF args.batch_mode = "size"
    THEN create_batches_by_greedy_size(input_files, sz, args.max_batch_size_kb,
                                       args.large_file_threshold_kb)
    ELSE create_balanced_batches(input_files, sz, args.batch_size)

\* what --resume may find in the output directory of a first invocation:
\* nothing, or a round_1_batch_1.txt left by an unrelated earlier run
LeftoverDirs == {{}, {[path |-> ArtPath(1, 1), size |-> KB \div 2]}}

Running == {i \in DOMAIN fut : fut[i] = "running"}
Queued == {i \in DOMAIN fut : fut[i] = "queued"}
Completed == {i \in DOMAIN fut : fut[i] = "done" \/ fut[i] = "failed"}

PipeInit ==
    /\ args \in [batch_mode : BatchModes,
                 batch_size : 1..MaxPipeBatchSize,
                 max_batch_size_kb : {PipeKb},
                 large_file_threshold_kb : {PipeKb},
                 max_workers : 1..MaxWorkers]
    /\ resume \in BOOLEAN
    /\ src_sizes \in UNION {[1..n -> SrcSizes] : n \in 1..MaxSources}
    /\ script = "comp-995"
    /\ src_dir = DOMAIN src_sizes
    /\ out_dir \in (IF resume THEN LeftoverDirs ELSE {{}})
    /\ pc = "loop"
    /\ current_files = initial_files
    /\ round_count = 1
    /\ batches = <<>>
    /\ next_batch = 1
    /\ fut = <<>>
    /\ yielded = {}
    /\ output_files = <<>>
    /\ invocation = 1
    /\ resumes = <<resume>>
    /\ calls = {}
    /\ succeeded = {}
    /\ failed_calls = {}
    /\ skips = {}
    /\ log = << <<>> >>
    /\ finalized = <<FALSE>>

\* ------------------------------------------------------- pipeline actions
RoundRecord(ok, result) ==
    [inputs |-> current_files, sizes |-> StatSize, batches |-> batches,
     ok |-> ok, result |-> result,
     collected_in_order |-> (output_files = result)]

LogRound(ok, result) ==
    [log EXCEPT ![invocation] = Append(@, RoundRecord(ok, result))]

\* run_distillation_round has returned: its locals no longer exist
RoundLocalsGone ==
    /\ batches' = <<>>
    /\ next_batch' = 1
    /\ fut' = <<>>
    /\ yielded' = {}
    /\ output_files' = <<>>

\* slip: the existence test uses the 0-based loop index instead of batch_number
ShouldSkip_LoopIndex(i) == resume /\ Exists(ArtPath(round_count, i - 1))

\* "if args.resume and expected_output.exists()"
ShouldSkip(i) == resume /\ Exists(ArtPath(round_count, i))

\* chunks of two or more files leave fewer files after every round, so main's
\* loop ends by itself; every other run is followed for MaxRounds rounds
LoopEndsByItself == args.batch_mode = "count" /\ args.batch_size >= 2

\* main: "while len(current_files) > 1" entering run_distillation_round, up to
\* the creation of the executor
StartRound ==
    /\ pc = "loop"
    /\ Len(current_files) > 1
    /\ round_count <= MaxRounds \/ LoopEndsByItself
    /\ batches' = MakeBatches(current_files, StatSize)
    /\ fut' = [i \in DOMAIN batches' |-> "unsubmitted"]
    /\ next_batch' = 1
    /\ yielded' = {}
    /\ output_files' = <<>>
    /\ pc' = IF batches' = <<>> THEN "collect" ELSE "submit"
    /\ UNCHANGED <<args, resume, src_sizes, script, src_dir, out_dir, current_files, round_count,
                   invocation, resumes, history_vars>>
    /\ UNCHANGED <<part_vars, dedup_vars, mission_vars>>

\* slip: the sizes are read after the batches were handed to the pool
PartitionRaises_AfterSubmit ==
    /\ pc = "collect"
    /\ args.batch_mode \in {"size", "balanced"}
    /\ pc' = "crashed"
    /\ RoundLocalsGone
    /\ UNCHANGED <<args, resume, src_sizes, script, src_dir, out_dir, current_files, round_count,
                   invocation, resumes, history_vars>>
    /\ UNCHANGED <<part_vars, dedup_vars, mission_vars>>

\* p.stat() raises while the batches of a round are computed by size (a file
\* was removed by another program or cannot be read): the exception leaves
\* run_distillation_round before the pool exists, and main with it
PartitionRaises ==
    /\ pc = "loop"
    /\ Len(current_files) > 1
    /\ round_count <= MaxRounds \/ LoopEndsByItself
    /\ args.batch_mode \in {"size", "balanced"}
    /\ pc' = "crashed"
    /\ RoundLocalsGone
    /\ UNCHANGED <<args, resume, src_sizes, script, src_dir, out_dir, current_files, round_count,
                   invocation, resumes, history_vars>>
    /\ UNCHANGED <<part_vars, dedup_vars, mission_vars>>

\* slip: a skipped batch is not put into output_files
Submit_SkipDropsOutput ==
    /\ pc = "submit"
    /\ next_batch <= Len(batches)
    /\ IF ShouldSkip(next_batch)
       THEN /\ output_files' = output_files
            /\ fut' = [fut EXCEPT ![next_batch] = "skipped"]
            /\ skips' = skips \cup {<<invocation, round_count, next_batch>>}
       ELSE /\ fut' = [fut EXCEPT ![next_batch] = "queued"]
            /\ UNCHANGED <<output_files, skips>>
    /\ next_batch' = next_batch + 1
    /\ pc' = IF next_batch = Len(batches) THEN "collect" ELSE "submit"
    /\ UNCHANGED <<args, resume, src_sizes, script, src_dir, out_dir, current_files, round_count,
                   batches, yielded, invocation, resumes,
                   calls, succeeded, failed_calls, log, finalized>>
    /\ UNCHANGED <<part_vars, dedup_vars, mission_vars>>

\* one iteration of "for i, batch in enumerate(batches)"
Submit ==
    /\ pc = "submit"
    /\ next_batch <= Len(batches)
    /\ IF ShouldSkip(next_batch)
       THEN /\ output_files' = Append(output_files, ArtPath(round_count, next_batch))
            /\ fut' = [fut EXCEPT ![next_batch] = "skipped"]
            /\ skips' = skips \cup {<<invocation, round_count, next_batch>>}
       ELSE /\ fut' = [fut EXCEPT ![next_batch] = "queued"]
            /\ UNCHANGED <<output_files, skips>>
    /\ next_batch' = next_batch + 1
    /\ pc' = IF next_batch = Len(batches) THEN "collect" ELSE "submit"
    /\ UNCHANGED <<args, resume, src_sizes, script, src_dir, out_dir, current_files, round_count,
                   batches, yielded, invocation, resumes,
                   calls, succeeded, failed_calls, log, finalized>>
    /\ UNCHANGED <<part_vars, dedup_vars, mission_vars>>

\* slip: the pool starts a work item whatever the number of busy threads
WorkerStart_NoLimit(i) ==
    /\ i \in Queued
    /\ \A j \in Queued : i <= j
    /\ fut' = [fut EXCEPT ![i] = "running"]
    /\ calls' = calls \cup {<<invocation, round_count, i>>}
    /\ UNCHANGED <<args, resume, src_sizes, script, src_dir, out_dir, pc, current_files, round_count,
                   batches, next_batch, yielded, output_files, invocation, resumes,
                   succeeded, failed_calls, skips, log, finalized>>
    /\ UNCHANGED <<part_vars, dedup_vars, mission_vars>>

\* a pool thread takes the oldest queued work item and starts subprocess.run
WorkerStart(i) ==
    /\ i \in Queued
    /\ \A j \in Queued : i <= j
    /\ Cardinality(Running) < args.max_workers
    /\ fut' = [fut EXCEPT ![i] = "running"]
    /\ calls' = calls \cup {<<invocation, round_count, i>>}
    /\ UNCHANGED <<args, resume, src_sizes, script, src_dir, out_dir, pc, current_files, round_count,
                   batches, next_batch, yielded, output_files, invocation, resumes,
                   succeeded, failed_calls, skips, log, finalized>>
    /\ UNCHANGED <<part_vars, dedup_vars, mission_vars>>

\* subprocess.run returned with exit code 0: the artifact is written
WorkerOk(i, size) ==
    /\ i \in Running
    /\ out_dir' = WriteFile(out_dir, ArtPath(round_count, i), size)
    /\ fut' = [fut EXCEPT ![i] = "done"]
    /\ succeeded' = succeeded \cup {<<invocation, round_count, i>>}
    /\ UNCHANGED <<args, resume, src_sizes, script, src_dir, pc, current_files, round_count,
                   batches, next_batch, yielded, output_files, invocation, resumes,
                   calls, failed_calls, skips, log, finalized>>
    /\ UNCHANGED <<part_vars, dedup_vars, mission_vars>>

\* slip: a failed batch is put back in the queue
WorkerFail_Requeue(i) ==
    /\ i \in Running
    /\ fut' = [fut EXCEPT ![i] = "queued"]
    /\ failed_calls' = failed_calls \cup {<<invocation, round_count, i>>}
    /\ UNCHANGED <<args, resume, src_sizes, script, src_dir, out_dir, pc, current_files, round_count,
                   batches, next_batch, yielded, output_files, invocation, resumes,
                   calls, succeeded, skips, log, finalized>>
    /\ UNCHANGED <<part_vars, dedup_vars, mission_vars>>

\* subprocess.run raised (missing binary, timeout or non-zero exit): every
\* handler prints and re-raises, so the future holds the exception
WorkerFail(i) ==
    /\ i \in Running
    /\ fut' = [fut EXCEPT ![i] = "failed"]
    /\ failed_calls' = failed_calls \cup {<<invocation, round_count, i>>}
    /\ UNCHANGED <<args, resume, src_sizes, script, src_dir, out_dir, pc, current_files, round_count,
                   batches, next_batch, yielded, output_files, invocation, resumes,
                   calls, succeeded, skips, log, finalized>>
    /\ UNCHANGED <<part_vars, dedup_vars, mission_vars>>

\* slip: the except branch only prints, and the loop goes on
Collect_Swallow(i) ==
    /\ pc = "collect"
    /\ i \in Completed \ yielded
    /\ yielded' = yielded \cup {i}
    /\ IF fut[i] = "done"
       THEN output_files' = Append(output_files, ArtPath(round_count, i))
       ELSE UNCHANGED output_files
    /\ UNCHANGED <<fut, pc>>
    /\ UNCHANGED <<args, resume, src_sizes, script, src_dir, out_dir, current_files, round_count,
                   batches, next_batch, invocation, resumes, history_vars>>
    /\ UNCHANGED <<part_vars, dedup_vars, mission_vars>>

\* one iteration of "for future in as_completed(...)"
Collect(i) ==
    /\ pc = "collect"
    /\ i \in Completed \ yielded
    /\ yielded' = yielded \cup {i}
    /\ IF fut[i] = "done"
       THEN /\ output_files' = Append(output_files, ArtPath(round_count, i))
            /\ UNCHANGED <<fut, pc>>
       ELSE \* future.result() raised: the coordinator is in the except branch
            /\ pc' = "except"
            /\ UNCHANGED <<fut, output_files>>
    /\ UNCHANGED <<args, resume, src_sizes, script, src_dir, out_dir, current_files, round_count,
                   batches, next_batch, invocation, resumes, history_vars>>
    /\ UNCHANGED <<part_vars, dedup_vars, mission_vars>>

\* slip: the pool is shut down without cancel_futures
Shutdown_NoCancel ==
    /\ pc = "except"
    /\ pc' = "drain"
    /\ UNCHANGED <<args, resume, src_sizes, script, src_dir, out_dir, current_files, round_count,
                   round_vars, invocation, resumes, history_vars>>
    /\ UNCHANGED <<part_vars, dedup_vars, mission_vars>>

\* executor.shutdown(wait=False, cancel_futures=True): the work items still in
\* the pool's queue are cancelled; the pool threads ran on their own until now
Shutdown ==
    /\ pc = "except"
    /\ fut' = [j \in DOMAIN fut |-> IF fut[j] = "queued" THEN "cancelled" ELSE fut[j]]
    /\ pc' = "drain"
    /\ UNCHANGED <<args, resume, src_sizes, script, src_dir, out_dir, current_files, round_count,
                   batches, next_batch, yielded, output_files,
                   invocation, resumes, history_vars>>
    /\ UNCHANGED <<part_vars, dedup_vars, mission_vars>>

\* slip: the coordinator does not wait for the futures still pending
RoundReturn_NoWait ==
    /\ pc = "collect"
    /\ \A i \in Completed : i \in yielded
    /\ current_files' = SortByName(output_files)
    /\ round_count' = round_count + 1
    /\ log' = LogRound(TRUE, SortByName(output_files))
    /\ pc' = "loop"
    /\ RoundLocalsGone
    /\ UNCHANGED <<args, resume, src_sizes, script, src_dir, out_dir, invocation, resumes,
                   calls, succeeded, failed_calls, skips, finalized>>
    /\ UNCHANGED <<part_vars, dedup_vars, mission_vars>>

\* as_completed is exhausted: return sorted(output_files); main takes the list
\* as current_files and increments round_count
RoundReturn ==
    /\ pc = "collect"
    /\ \A i \in DOMAIN fut : fut[i] = "skipped" \/ i \in yielded
    /\ current_files' = SortByName(output_files)
    /\ round_count' = round_count + 1
    /\ log' = LogRound(TRUE, SortByName(output_files))
    /\ pc' = "loop"
    /\ RoundLocalsGone
    /\ UNCHANGED <<args, resume, src_sizes, script, src_dir, out_dir, invocation, resumes,
                   calls, succeeded, failed_calls, skips, finalized>>
    /\ UNCHANGED <<part_vars, dedup_vars, mission_vars>>

\* the with-block has joined the pool threads, None is returned and main returns
RoundAbort ==
    /\ pc = "drain"
    /\ Running = {}
    /\ log' = LogRound(FALSE, <<>>)
    /\ pc' = "aborted"
    /\ RoundLocalsGone
    /\ UNCHANGED <<args, resume, src_sizes, script, src_dir, out_dir, current_files, round_count,
                   invocation, resumes,
                   calls, succeeded, failed_calls, skips, finalized>>
    /\ UNCHANGED <<part_vars, dedup_vars, mission_vars>>

\* the test before shutil.move: "len(current_files) == 1 and round_count > 1"
\* in the script of 21 August 2025, "len(current_files) == 1" alone in comp-004
MovesLastFile == script = "comp-004" \/ round_count > 1

\* slip: the move waits for a second round
Finish_LateMove ==
    /\ pc = "loop"
    /\ Len(current_files) <= 1
    /\ IF Len(current_files) = 1 /\ round_count > 2
       THEN /\ out_dir' = WriteFile(RemoveFile(out_dir, current_files[1]),
                                    FinalPath, SizeOnDisk(current_files[1]))
            /\ finalized' = [finalized EXCEPT ![invocation] = TRUE]
       ELSE UNCHANGED <<out_dir, finalized>>
    /\ pc' = "done"
    /\ UNCHANGED <<args, resume, src_sizes, script, src_dir, current_files, round_count, round_vars,
                   invocation, resumes, calls, succeeded, failed_calls, skips, log>>
    /\ UNCHANGED <<part_vars, dedup_vars, mission_vars>>

\* main after the loop: the surviving file is moved to the final summary
Finish ==
    /\ pc = "loop"
    /\ Len(current_files) <= 1
    /\ IF Len(current_files) = 1 /\ MovesLastFile
       THEN /\ IF current_files[1].kind = "src"
               THEN /\ src_dir' = src_dir \ {current_files[1].batch}
                    /\ out_dir' = WriteFile(out_dir, FinalPath,
                                            src_sizes[current_files[1].batch])
               ELSE /\ out_dir' = WriteFile(RemoveFile(out_dir, current_files[1]),
                                            FinalPath, SizeOnDisk(current_files[1]))
                    /\ UNCHANGED src_dir
            /\ finalized' = [finalized EXCEPT ![invocation] = TRUE]
       ELSE UNCHANGED <<out_dir, src_dir, finalized>>
    /\ pc' = "done"
    /\ UNCHANGED <<args, resume, src_sizes, script, current_files, round_count, round_vars,
                   invocation, resumes, calls, succeeded, failed_calls, skips, log>>
    /\ UNCHANGED <<part_vars, dedup_vars, mission_vars>>

\* slip: the output directory is cleared although --resume is set
Reinvoke_Clears ==
    /\ pc \in {"done", "aborted", "crashed"}
    /\ invocation < MaxInvocations
    /\ invocation' = invocation + 1
    /\ resume' = TRUE
    /\ resumes' = Append(resumes, TRUE)
    /\ out_dir' = {}
    /\ current_files' = initial_files
    /\ round_count' = 1
    /\ UNCHANGED round_vars
    /\ log' = Append(log, <<>>)
    /\ finalized' = Append(finalized, FALSE)
    /\ pc' = "loop"
    /\ UNCHANGED <<args, src_sizes, script, src_dir, calls, succeeded, failed_calls, skips>>
    /\ UNCHANGED <<part_vars, dedup_vars, mission_vars>>

\* the script is run again with --resume on the same source and output
\* directories with the same options (a run without --resume clears the output
\* directory and starts as the first invocation does): main up to its loop
Reinvoke ==
    /\ pc \in {"done", "aborted", "crashed"}
    /\ invocation < MaxInvocations
    /\ invocation' = invocation + 1
    /\ resume' = TRUE
    /\ resumes' = Append(resumes, TRUE)
    /\ out_dir' = out_dir
    /\ current_files' = initial_files
    /\ round_count' = 1
    /\ UNCHANGED round_vars
    /\ log' = Append(log, <<>>)
    /\ finalized' = Append(finalized, FALSE)
    /\ pc' = "loop"
    /\ UNCHANGED <<args, src_sizes, script, src_dir, calls, succeeded, failed_calls, skips>>
    /\ UNCHANGED <<part_vars, dedup_vars, mission_vars>>

Next ==
    \/ StartRound
    \/ PartitionRaises
    \/ Submit
    \/ \E i \in DOMAIN fut : WorkerStart(i)
    \/ \E i \in DOMAIN fut : \E size \in OutSizes : WorkerOk(i, size)
    \/ \E i \in DOMAIN fut : WorkerFail(i)
    \/ \E i \in DOMAIN fut : Collect(i)
    \/ Shutdown
    \/ RoundReturn
    \/ RoundAbort
    \/ Finish
    \/ Reinvoke

PartIdle ==
    /\ file_sizes = <<>>
    /\ batch_size = 1
    /\ max_batch_size_kb = 1
    /\ large_file_threshold_kb = 1
    /\ part_mode = "none"
    /\ part_batches = <<>>

PipeIdle ==
    /\ args = [batch_mode |-> "count", batch_size |-> 1, max_batch_size_kb |-> 1,
               large_file_threshold_kb |-> 1, max_workers |-> 1]
    /\ resume = FALSE
    /\ src_sizes = <<>>
    /\ script = "comp-995"
    /\ src_dir = {}
    /\ out_dir = {}
    /\ pc = "idle"
    /\ current_files = <<>>
    /\ round_count = 1
    /\ batches = <<>>
    /\ next_batch = 1
    /\ fut = <<>>
    /\ yielded = {}
    /\ output_files = <<>>
    /\ invocation = 1
    /\ resumes = <<FALSE>>
    /\ calls = {}
    /\ succeeded = {}
    /\ failed_calls = {}
    /\ skips = {}
    /\ log = << <<>> >>
    /\ finalized = <<FALSE>>

PartInit == PartInputs /\ PipeIdle /\ DedupIdle /\ MissionIdle

PartSpec == PartInit /\ [][PartNext]_vars

Init == PartIdle /\ PipeInit /\ DedupIdle /\ MissionIdle

Spec == Init /\ [][Next]_vars

\* the documented count example: 10 source files of half a kilobyte, count
\* mode, --batch-size 3, a fresh output directory
CountScenarioPipe ==
    /\ args \in [batch_mode : {"count"},
                 batch_size : {3},
                 max_batch_size_kb : {PipeKb},
                 large_file_threshold_kb : {PipeKb},
                 max_workers : 1..MaxWorkers]
    /\ resume = FALSE
    /\ src_sizes = [i \in 1..10 |-> KB \div 2]
    /\ script = "comp-995"
    /\ src_dir = DOMAIN src_sizes
    /\ out_dir = {}
    /\ pc = "loop"
    /\ current_files = initial_files
    /\ round_count = 1
    /\ batches = <<>>
    /\ next_batch = 1
    /\ fut = <<>>
    /\ yielded = {}
    /\ output_files = <<>>
    /\ invocation = 1
    /\ resumes = <<resume>>
    /\ calls = {}
    /\ succeeded = {}
    /\ failed_calls = {}
    /\ skips = {}
    /\ log = << <<>> >>
    /\ finalized = <<FALSE>>

CountScenarioInit == PartIdle /\ CountScenarioPipe /\ DedupIdle /\ MissionIdle

\* the steps of a run in count mode: create_batches_by_count slices the list
\* and reads no file size, so no stat() can raise before the pool exists
CountNext ==
    \/ StartRound
    \/ Submit
    \/ \E i \in DOMAIN fut : WorkerStart(i)
    \/ \E i \in DOMAIN fut : \E size \in OutSizes : WorkerOk(i, size)
    \/ \E i \in DOMAIN fut : WorkerFail(i)
    \/ \E i \in DOMAIN fut : Collect(i)
    \/ Shutdown
    \/ RoundReturn
    \/ RoundAbort
    \/ Finish
    \/ Reinvoke

CountScenarioSpec == CountScenarioInit /\ [][CountNext]_vars

\* --batch-size of comp-004: a number of files, or a number of bytes in size mode
OlderBatchSizes == (1..MaxPipeBatchSize) \cup {KB}

\* main of distill_cli_resume-Y-comp-004.py up to its loop: the same round
\* executor, batches by count or by size, no test of round_count before the move
OlderPipeInit ==
    /\ args \in [batch_mode : {"count", "size"},
                 batch_size : OlderBatchSizes,
                 max_batch_size_kb : {PipeKb},
                 large_file_threshold_kb : {PipeKb},
                 max_workers : 1..MaxWorkers]
    /\ resume \in BOOLEAN
    /\ src_sizes \in UNION {[1..n -> SrcSizes] : n \in 1..MaxSources}
    /\ script = "comp-004"
    /\ src_dir = DOMAIN src_sizes
    /\ out_dir \in (IF resume THEN LeftoverDirs ELSE {{}})
    /\ pc = "loop"
    /\ current_files = initial_files
    /\ round_count = 1
    /\ batches = <<>>
    /\ next_batch = 1
    /\ fut = <<>>
    /\ yielded = {}
    /\ output_files = <<>>
    /\ invocation = 1
    /\ resumes = <<resume>>
    /\ calls = {}
    /\ succeeded = {}
    /\ failed_calls = {}
    /\ skips = {}
    /\ log = << <<>> >>
    /\ finalized = <<FALSE>>

OlderMainInit == PartIdle /\ OlderPipeInit /\ DedupIdle /\ MissionIdle

OlderMainSpec == OlderMainInit /\ [][Next]_vars

DedupInit == PartIdle /\ PipeIdle /\ DedupInputs /\ MissionIdle

DedupSpec == DedupInit /\ [][DedupNext]_vars

MissionInit == PartIdle /\ PipeIdle /\ DedupIdle /\ MissionInputs

MissionSpec == MissionInit /\ [][MissionNext]_vars

\* ------------------------------------------------- partitioner properties
BatchIndexes == DOMAIN part_batches

BatchBytes(b) == SumSizes(b, file_sizes)

MaxBatchBytes == max_batch_size_kb * KB

LargeFileBytes == large_file_threshold_kb * KB

\* every input file appears in exactly one batch
IsPartition(bs, fl) ==
    /\ Len(Flatten(bs)) = Len(fl)
    /\ Range(Flatten(bs)) = Range(fl)

CeilDiv(n, k) == (n + k - 1) \div k

\* C1: in balanced mode the returned batches are pairwise disjoint and their
\* union is the input list (no file dropped, none duplicated).
C1_BalancedPartition ==
    part_mode = "balanced" => IsPartition(part_batches, file_list)

\* C6: in balanced mode no batch is above the max-batch-size budget, except a
\* singleton batch whose file individually exceeds the large-file threshold.
C6_BalancedBudget ==
    part_mode = "balanced" =>
        \A i \in BatchIndexes :
            \/ BatchBytes(part_batches[i]) <= MaxBatchBytes
            \/ /\ Len(part_batches[i]) = 1
               /\ file_sizes[part_batches[i][1]] > LargeFileBytes

C8_BalancedSpread ==
    part_mode = "balanced" =>
        \A i, j \in BatchIndexes :
            BatchBytes(part_batches[i]) - BatchBytes(part_batches[j])
                <= SumSizes(<<SortDescBySize(file_list, file_sizes)[1]>>, file_sizes)

\* C9: count mode returns ceil(n/k) batches whose concatenation is the input
\* list; all but the last have exactly k files, the last has 1..k.
C9_CountChunks ==
    part_mode = "count" =>
        /\ Len(part_batches) = CeilDiv(Len(file_list), batch_size)
        /\ Flatten(part_batches) = file_list
        /\ \A i \in BatchIndexes :
              IF i < Len(part_batches)
              THEN Len(part_batches[i]) = batch_size
              ELSE Len(part_batches[i]) \in 1..batch_size

\* count mode on a list that does not divide evenly: a short last chunk
C9_Witness ==
    /\ part_mode = "count"
    /\ Len(part_batches) >= 2
    /\ Len(part_batches[Len(part_batches)]) < batch_size

\* a file above both byte thresholds
Oversized(f) == file_sizes[f] > MaxBatchBytes /\ file_sizes[f] > LargeFileBytes

Isolated(f) ==
    \A i \in BatchIndexes :
        f \in Range(part_batches[i]) => Len(part_batches[i]) = 1

C11_GreedyPartition ==
    part_mode = "size" =>
        /\ \A i \in BatchIndexes : part_batches[i] # <<>>
        /\ IsPartition(part_batches, file_list)
        /\ \A f \in Range(file_list) :
              file_sizes[f] >= LargeFileBytes => Isolated(f)

\* greedy size mode with a file exactly at the large-file threshold and a
\* packed batch of several smaller files
C11_Witness ==
    /\ part_mode = "size"
    /\ \E f \in Range(file_list) : file_sizes[f] = LargeFileBytes
    /\ \E i \in BatchIndexes : Len(part_batches[i]) >= 2

\* C12: in count mode and in balanced mode every returned batch has at least
\* one and at most batch_size files.
C12_FileCountCap ==
    part_mode \in {"count", "balanced"} =>
        \A i \in BatchIndexes : Len(part_batches[i]) \in 1..batch_size

\* balanced mode with more files than the cap and a batch filled to the cap
C12_Witness ==
    /\ part_mode = "balanced"
    /\ Len(file_list) > batch_size
    /\ batch_size >= 2
    /\ \E i \in BatchIndexes : Len(part_batches[i]) = batch_size

\* the documented balanced example was the input
BalancedScenario ==
    /\ part_mode = "balanced"
    /\ file_sizes = BalancedScenarioSizes
    /\ batch_size = 2

\* C17: on sizes [10,1,1,1,1] with at most 2 files per batch, balanced mode
\* targets 3 bins and returns three batches of totals 10, 2 and 2: the file of
\* size 10 alone and the four files of size 1 two and two.
C17_BalancedScenario ==
    BalancedScenario =>
        /\ NumBatches(Len(file_list), batch_size) = 3
        /\ Len(part_batches) = 3
        /\ IsPartition(part_batches, file_list)
        /\ \E i \in BatchIndexes :
              /\ part_batches[i] = <<1>>
              /\ BatchBytes(part_batches[i]) = 10
              /\ \A j \in BatchIndexes \ {i} :
                    /\ Len(part_batches[j]) = 2
                    /\ BatchBytes(part_batches[j]) = 2

\* the example has been partitioned
C17_Witness ==
    /\ BalancedScenario
    /\ part_batches # <<>>

\* ---------------------------------------------------- pipeline properties
\* invocation v ended in a failed round
Aborted(v) == log[v] # <<>> /\ ~log[v][Len(log[v])].ok

\* the artifacts returned by round r of invocation v were not moved afterwards
\* (main moves only the single artifact of the last round)
ArtifactsKept(v, r) == ~(finalized[v] /\ r = Len(log[v]))

\* the input list of round r of invocation v, for a round that has started
RoundInputs(v, r) ==
    IF r \in DOMAIN log[v] THEN log[v][r].inputs ELSE current_files

\* round r of invocation v repeats, with resume, a round that fully succeeded
\* with resume in the invocation before, on the same inputs and directory
RepeatsSucceededRound(v, r) ==
    /\ v >= 2
    /\ resumes[v - 1] /\ resumes[v]
    /\ r \in DOMAIN log[v - 1]
    /\ log[v - 1][r].ok
    /\ ArtifactsKept(v - 1, r)
    /\ RoundInputs(v, r) = log[v - 1][r].inputs

\* C2: with batches made by count, every round that had more than one batch
\* and succeeded hands main strictly fewer files than it was given (the
\* variant that makes the round loop reach a single file).
C2_RoundsReduce ==
    [][(args.batch_mode = "count" /\ pc = "collect" /\ pc' = "loop" /\ Len(batches) > 1)
         => Len(current_files') < Len(current_files)]_vars

\* C3: a second call of the round executor with resume, on the inputs, round
\* number and output directory of a call that fully succeeded with resume,
\* makes no external call and returns the same list.
C3_ResumeIdempotent ==
    /\ \A c \in calls : ~RepeatsSucceededRound(c[1], c[2])
    /\ \A v \in DOMAIN log : \A r \in DOMAIN log[v] :
          RepeatsSucceededRound(v, r) =>
              /\ log[v][r].ok
              /\ log[v][r].result = log[v - 1][r].result

\* a round of two or more batches returned again, all skipped, in invocation 2
C3_Witness ==
    /\ invocation = 2
    /\ 1 \in DOMAIN log[2]
    /\ RepeatsSucceededRound(2, 1)
    /\ Len(log[1][1].result) >= 2
    /\ log[2][1].result = log[1][1].result
    /\ \E c \in calls : c[1] = 1 /\ c[2] = 1

\* C4: when the external call of a batch fails, its round returns failure,
\* the invocation starts no further round and does not create the final
\* summary, whatever the other batches of the round did.
C4_NoPartialSuccess ==
    \A c \in failed_calls :
        LET v == c[1]
            r == c[2]
        IN /\ r \in DOMAIN log[v] => ~log[v][r].ok
           /\ Len(log[v]) <= r
           /\ \A d \in calls : d[1] = v => d[2] <= r
           /\ ~finalized[v]
           /\ v = invocation =>
                 /\ round_count = r
                 /\ pc \in {"submit", "collect", "except", "drain", "aborted"}

\* an invocation aborted in a round where another batch succeeded
C4_Witness ==
    /\ pc = "aborted"
    /\ \E c \in failed_calls : \E d \in succeeded :
          /\ c[1] = invocation /\ d[1] = invocation
          /\ c[2] = d[2]
          /\ Exists(ArtPath(d[2], d[3]))

\* C5: re-invoked with resume after an aborted invocation, no batch whose
\* external call succeeded in the aborted invocation is executed again; the
\* batches executed are ones that failed or produced no output there.
C5_ResumeAfterFailure ==
    \A v \in DOMAIN log :
        (v >= 2 /\ resumes[v] /\ Aborted(v - 1)) =>
            /\ \A c \in succeeded :
                  c[1] = v - 1 => <<v, c[2], c[3]>> \notin calls
            /\ \A c \in calls :
                  c[1] = v => /\ <<v - 1, c[2], c[3]>> \notin succeeded
                              /\ <<v - 1, c[2], c[3]>> \notin skips

\* invocation 2 skipped the batch that succeeded and re-ran the one that
\* failed in the round where invocation 1 aborted
C5_Witness ==
    /\ invocation = 2
    /\ Aborted(1)
    /\ \E c \in succeeded : \E f \in failed_calls :
          /\ c[1] = 1 /\ f[1] = 1 /\ c[2] = f[2]
          /\ <<2, c[2], c[3]>> \in skips
          /\ <<2, f[2], f[3]>> \in calls

\* the batches of round r that invocation v handed back in a successful round
BatchesOf(v, r) == 1..Len(log[v][r].result)

\* C13: with resume, a batch is handed to the pool exactly when its
\* round_<r>_batch_<i>.txt does not exist; when it exists the path is taken as
\* the batch's artifact and no external call is made for it, whoever wrote the
\* file; without resume no batch is skipped. In a round that succeeds every
\* batch is either skipped or executed, never both.
C13_ResumeTrustsName ==
    /\ [](/\ \A c \in skips : c \notin calls /\ resumes[c[1]]
          /\ \A v \in DOMAIN log : \A r \in DOMAIN log[v] :
                log[v][r].ok =>
                    \A i \in BatchesOf(v, r) :
                        /\ <<v, r, i>> \in skips \/ <<v, r, i>> \in succeeded
                        /\ ~resumes[v] => <<v, r, i>> \in succeeded)
    /\ [][\A i \in DOMAIN fut :
            (i \in DOMAIN fut' /\ fut[i] = "unsubmitted" /\ fut'[i] # "unsubmitted") =>
                IF resume /\ Exists(ArtPath(round_count, i))
                THEN /\ fut'[i] = "skipped"
                     /\ output_files' = Append(output_files, ArtPath(round_count, i))
                     /\ calls' = calls
                ELSE fut'[i] = "queued"]_vars

\* a resumed first invocation returned round 1 with batch 1 skipped on a file
\* that no call of this program wrote, next to a batch that was executed
C13_Witness ==
    /\ 1 \in DOMAIN log[1]
    /\ log[1][1].ok
    /\ <<1, 1, 1>> \in skips
    /\ <<1, 1, 2>> \in succeeded

\* C14: when main is over with one file left after at least one successful
\* round, that file, the artifact of the last round's single batch, has been
\* moved to the final summary; an invocation that moved a file had only
\* successful rounds, at least one, and the last returned one artifact.
C14_FinalArtifact ==
    /\ \A v \in DOMAIN finalized :
          finalized[v] =>
              /\ log[v] # <<>>
              /\ \A r \in DOMAIN log[v] : log[v][r].ok
              /\ log[v][Len(log[v])].result = <<ArtPath(Len(log[v]), 1)>>
              /\ v = invocation => pc = "done"
    /\ pc = "done" =>
          /\ finalized[invocation] <=>
                (Len(current_files) = 1 /\ log[invocation] # <<>>)
          /\ finalized[invocation] =>
                /\ Exists(FinalPath)
                /\ ~Exists(current_files[1])

\* a first invocation ended with its last artifact moved to the final summary
C14_Witness ==
    /\ pc = "done"
    /\ invocation = 1
    /\ finalized[1]
    /\ Exists(FinalPath)

\* a list of artifact paths in strictly ascending order of file name
RECURSIVE AscendingByName(_)
AscendingByName(files) ==
    IF Len(files) <= 1 THEN TRUE
    ELSE /\ LexLess(NameKey(files[1]), NameKey(files[2]))
         /\ AscendingByName(Tail(files))

\* C15: a round whose batches all succeeded returns the artifacts of all its
\* batches in ascending order of file name, in whatever order the futures
\* completed and whichever batches were skipped.
C15_SortedOutputs ==
    \A v \in DOMAIN log : \A r \in DOMAIN log[v] :
        log[v][r].ok =>
            /\ AscendingByName(log[v][r].result)
            /\ Range(log[v][r].result) = {ArtPath(r, i) : i \in BatchesOf(v, r)}

\* a round returned after its artifacts were collected out of name order, one
\* batch skipped and the others executed
C15_Witness ==
    \E v \in DOMAIN log : \E r \in DOMAIN log[v] :
        /\ log[v][r].ok
        /\ ~log[v][r].collected_in_order
        /\ \E c \in skips : c[1] = v /\ c[2] = r
        /\ \E c \in succeeded : c[1] = v /\ c[2] = r

\* number of files in each batch
BatchLens(bs) == [i \in DOMAIN bs |-> Len(bs[i])]

\* C16: 10 files by count with batch size 3: round 1 has batches of 3,3,3,1
\* files and returns 4 files, round 2 has batches of 3,1 and returns 2, round 3
\* has one batch and returns 1; main then leaves the loop and moves that file
\* to the final summary.
C16_CountScenario ==
    /\ batches # <<>> =>
          BatchLens(batches) = << <<3, 3, 3, 1>>, <<3, 1>>, <<2>> >>[round_count]
    /\ \A v \in DOMAIN log :
          /\ Len(log[v]) <= 3
          /\ \A r \in DOMAIN log[v] :
                /\ Len(log[v][r].inputs) = <<10, 4, 2>>[r]
                /\ log[v][r].ok => Len(log[v][r].result) = <<4, 2, 1>>[r]
    /\ pc = "done" =>
          /\ Len(log[invocation]) = 3
          /\ finalized[invocation]
          /\ Exists(FinalPath)
          /\ ~Exists(ArtPath(3, 1))

\* the first invocation went through its three rounds without a failed call
\* and has moved the last file
C16_Witness ==
    /\ pc = "done"
    /\ invocation = 1
    /\ failed_calls = {}
    /\ Cardinality(succeeded) = 7
    /\ finalized[1]

C20_RoundSequencing ==
    /\ \A v \in DOMAIN log : \A r \in DOMAIN log[v] :
          IF r = 1
          THEN log[v][r].inputs = initial_files
          ELSE /\ log[v][r - 1].ok
               /\ log[v][r].inputs = log[v][r - 1].result
    /\ pc \in {"submit", "collect", "except", "drain"} =>
          current_files = IF round_count = 1 THEN initial_files
                          ELSE log[invocation][round_count - 1].result
    /\ \A c \in calls :
          c[2] > 1 =>
              /\ c[2] - 1 \in DOMAIN log[c[1]]
              /\ log[c[1]][c[2] - 1].ok
              /\ \A d \in calls :
                    (d[1] = c[1] /\ d[2] = c[2] - 1) => d \in succeeded

\* a call of round 2 was made after a round 1 of two or more calls
C20_Witness ==
    \E c \in calls :
        /\ c[2] = 2
        /\ Cardinality({d \in calls : d[1] = c[1] /\ d[2] = 1}) >= 2

\* C18: a dry run moves no file and creates no quarantine directory: from its
\* start to its end the tree and the quarantine directory are what they were.
C18_DryRunChangesNothing ==
    dry_run =>
        /\ tree = tree_before
        /\ quarantine_exists = quarantine_before

\* a dry run is over that found duplicates and reported a file it would move,
\* with no quarantine directory on disk
C18_Witness ==
    /\ dry_run
    /\ dedup_pc = "done"
    /\ moved_count >= 1
    /\ ~quarantine_exists

\* C21: at every moment of a round at most max_workers external calls are in
\* progress.
C21_BoundedPool ==
    Cardinality(Running) <= args.max_workers

\* every pool thread is busy while a batch waits in the queue
C21_Witness ==
    /\ Cardinality(Running) = args.max_workers
    /\ Queued # {}
    /\ Len(batches) > args.max_workers

\* the file name written by the batch of a call <<invocation, round, index>>
FileNameOf(c) == NameKey(ArtPath(c[2], c[3]))

\* C22: within one invocation two distinct batches, of the same round or not,
\* write files of different names; so do any two workers running together.
C22_NoWriteContention ==
    /\ \A c, d \in calls :
          (c[1] = d[1] /\ c # d) => FileNameOf(c) # FileNameOf(d)
    /\ \A i, j \in Running :
          i # j => NameKey(ArtPath(round_count, i)) # NameKey(ArtPath(round_count, j))

\* two workers run together in round 2, after the calls of round 1
C22_Witness ==
    /\ round_count = 2
    /\ Cardinality(Running) >= 2
    /\ \E c \in calls : c[1] = invocation /\ c[2] = 1

\* C23: within one invocation the external call of a batch is started at most
\* once, whether it succeeded or failed.
C23_NoRetry ==
    [][\A i \in DOMAIN fut :
          (i \in DOMAIN fut' /\ fut[i] # "running" /\ fut'[i] = "running") =>
              <<invocation, round_count, i>> \notin calls]_vars

\* an invocation that ended on a failed call that was not made again
C23_Witness ==
    /\ pc = "aborted"
    /\ \E c \in failed_calls : c[1] = invocation /\ c \notin succeeded

\* C24: when reading a file size fails while the batches of a round are
\* computed (size or balanced mode), the invocation ends there: no batch of
\* that round was skipped or submitted and no external call of it was made.
C24_PartitionErrorFirst ==
    pc = "crashed" =>
        /\ args.batch_mode \in {"size", "balanced"}
        /\ batches = <<>> /\ fut = <<>>
        /\ Len(log[invocation]) = round_count - 1
        /\ \A c \in calls \cup skips :
              c[1] = invocation => c[2] < round_count

\* the sizes could not be read at the start of round 2, after the calls of
\* round 1
C24_Witness ==
    /\ pc = "crashed"
    /\ round_count = 2
    /\ \E c \in calls : c[1] = invocation /\ c[2] = 1

\* C25: in every run of a distillation script's main, whatever the number of
\* source files and the outcome, every source file stays where it was.
C25_SourcesUntouched ==
    src_dir = DOMAIN src_sizes

\* C26: an invocation with --resume that follows an invocation which completed
\* (its last artifact became ULTRA_DISTILLED_SUMMARY.txt), on the same inputs and
\* options, makes no external call.
C26_ResumeIdempotent ==
    \A v \in 2..invocation :
        (finalized[v - 1] /\ resumes[v]) => \A c \in calls : c[1] # v

C28_OneArtifactPerBatch ==
    [][(pc = "collect" /\ pc' = "loop") =>
          /\ Len(current_files') = Len(batches)
          /\ Range(current_files') = {ArtPath(round_count, i) : i \in DOMAIN batches}
          /\ \A k \in DOMAIN current_files' : Exists(current_files'[k])]_vars

C28_Witness ==
    /\ pc = "loop"
    /\ round_count = 2
    /\ Len(log[invocation]) = 1
    /\ log[invocation][1].ok
    /\ ~log[invocation][1].collected_in_order
    /\ Len(log[invocation][1].batches) >= 3
    /\ \E c \in skips : c[1] = invocation /\ c[2] = 1

\* C29: after an execution that is not a dry run, every content that had a .vtt
\* file outside the quarantine directory before the execution still has one
\* outside the quarantine directory.
C29_KeepsOneInPlace ==
    (dedup_pc = "done" /\ ~dry_run) =>
        \A h \in 1..MaxContents :
            (\E e \in tree_before :
                e.path.ext = "vtt" /\ e.path.dir # quarantine_dir /\ e.content = h)
            => (\E e \in tree :
                e.path.ext = "vtt" /\ e.path.dir # quarantine_dir /\ e.content = h)

\* C30: process ends with the download-failure status only after both attempts
\* failed: in each of them yt-dlp wrote no subtitle file, or the cleaning of the
\* file it wrote failed.
C30_FalseOnlyAfterBothFailed ==
    (mission_pc = "done" /\ status = "Fallo (Descarga)") =>
        /\ Len(attempts) = 2
        /\ \A k \in DOMAIN attempts :
              ~attempts[k].wrote \/ (attempts[k].found /\ ~attempts[k].cleaned)

====
